---- MODULE Spec2Model ----
(***************************************************************************)
(* Buffering / prefetch engine of the audio-story application: the App     *)
(* component (journey phase, route, story timeline, single-flight lock,    *)
(* background generation pipelines, initial generation), the RoutePlanner  *)
(* submission path, and the withTimeout guard.                             *)
(***************************************************************************)
EXTENDS Integers, Sequences, FiniteSets, TLC

\* ---------------------------------------------------------------- bounds
MaxJourneys == 2
MaxPlayingIndex == 1
MaxTime == 4

\* ------------------------------------------------------------- constants
PLANNING == 0
ROUTE_CONFIRMED == 1
GENERATING_INITIAL_SEGMENT == 2
READY_TO_PLAY == 3

LOOKAHEAD == 3
MAX_DURATION_SECONDS == 14400
TARGET_SEGMENT_SECONDS == 120

Null == [null |-> TRUE]

\* Durations (seconds) the directions service may report for a route.
Durations == {60, 240, 14400, 14401}

\* Outlines the outline generator may return (possibly shorter than asked).
Outlines == { <<>>, <<"beat1", "beat2">> }

\* Outcomes of one timeout-guarded remote call.
Outcomes == {"ok", "error", "timeout"}

DirectionsStatuses == {"OK", "ZERO_RESULTS", "UNKNOWN_ERROR"}

VARIABLES
    appState,             \* useState<AppState>
    route,                \* useState<RouteDetails | null>
    story,                \* useState<AudioStory | null>
    currentPlayingIndex,  \* useState<number>
    generationError,      \* useState<string | null>
    isGeneratingRef,      \* useRef<boolean>: the single-flight lock
    pipelines,            \* running generateNextSegment invocations
    initGen,              \* running handleGenerateStory invocation, or Null
    isLoading,            \* RoutePlanner: directions request pending
    error,                \* RoutePlanner: displayed error
    journeys,             \* number of routes handed to handleGenerateStory
    trigger,              \* what the buffering effect did in the last step
    merged,               \* what the setStory updater did in the last step
    last,                 \* the handler or continuation that ran in the last step
    wtNow,                \* withTimeout: elapsed milliseconds
    wtInput,              \* withTimeout: ms, errorMsg, the operation's value/error
    wtPromise,            \* withTimeout: state of the wrapped promise
    wtTimer,              \* withTimeout: state of the setTimeout timer
    wtClears,             \* withTimeout: number of clearTimeout calls
    wtRace,               \* withTimeout: state of the promise it returns
    wtFirst               \* withTimeout: the first event that occurred

vars == <<appState, route, story, currentPlayingIndex, generationError,
          isGeneratingRef, pipelines, initGen, isLoading, error, journeys,
          trigger, merged, last, wtNow, wtInput, wtPromise, wtTimer, wtClears,
          wtRace, wtFirst>>

appVars == <<appState, route, story, currentPlayingIndex, generationError,
             isGeneratingRef, pipelines, initGen, isLoading, error, journeys,
             trigger, merged, last>>

wtVars == <<wtNow, wtInput, wtPromise, wtTimer, wtClears, wtRace, wtFirst>>

\* ------------------------------------------------------- pure functions

\* Math.max(1, Math.round(durationSeconds / target)); Math.round rounds
\* halves up.
calculateTotalSegments(durationSeconds) ==
    LET rounded == (2 * durationSeconds + TARGET_SEGMENT_SECONDS)
                       \div (2 * TARGET_SEGMENT_SECONDS)
    IN  IF rounded < 1 THEN 1 ELSE rounded

\* story.outline[index - 1] || fallback
OutlineBeat(outline, index, fallback) ==
    IF index >= 1 /\ index <= Len(outline) THEN outline[index] ELSE fallback

\* The text generator's answer for (route, index): a segment carrying the
\* requested index and a text that depends on the route it was asked for.
generateSegment(rt, index) ==
    [index |-> index, text |-> <<rt.journey, index>>]

\* { ...segmentData, audioBuffer }
WithAudio(segmentData) ==
    [index |-> segmentData.index, text |-> segmentData.text,
     audioBuffer |-> segmentData.text]

\* The place of segs[i] after a stable sort by ascending index.
SortedPosition(segs, i) ==
    1 + Cardinality({j \in 1..Len(segs) :
                        \/ segs[j].index < segs[i].index
                        \/ segs[j].index = segs[i].index /\ j < i})

\* Array.prototype.sort((a, b) => a.index - b.index): a stable sort.
SortByIndex(segs) ==
    [p \in 1..Len(segs) |->
        segs[CHOOSE i \in 1..Len(segs) : SortedPosition(segs, i) = p]]

\* Mutant: the updater appends without re-sorting.
MergeSegment_NoSort(prev, index, segment) ==
    IF prev = Null THEN Null
    ELSE IF \E i \in 1..Len(prev.segments) : prev.segments[i].index = index
         THEN prev
    ELSE [prev EXCEPT !.segments = Append(prev.segments, segment)]

\* Mutant: the updater replaces an existing segment of the same index.
MergeSegment_Replace(prev, index, segment) ==
    IF prev = Null THEN Null
    ELSE IF \E i \in 1..Len(prev.segments) : prev.segments[i].index = index
         THEN [prev EXCEPT !.segments =
                  [i \in 1..Len(prev.segments) |->
                      IF prev.segments[i].index = index THEN segment
                      ELSE prev.segments[i]]]
    ELSE [prev EXCEPT !.segments = SortByIndex(Append(prev.segments, segment))]

\* Mutant: the updater forgets the segments already present.
MergeSegment_Overwrite(prev, index, segment) ==
    IF prev = Null THEN Null
    ELSE IF \E i \in 1..Len(prev.segments) : prev.segments[i].index = index
         THEN prev
    ELSE [prev EXCEPT !.segments = <<segment>>]

\* Mutant: the updater starts a timeline when there is none.
MergeSegment_CreatesTimeline(prev, index, segment) ==
    IF prev = Null
    THEN [totalSegmentsEstimate |-> index, outline |-> <<>>,
          segments |-> <<segment>>]
    ELSE IF \E i \in 1..Len(prev.segments) : prev.segments[i].index = index
         THEN prev
    ELSE [prev EXCEPT !.segments = SortByIndex(Append(prev.segments, segment))]

\* The setStory updater of generateNextSegment.
MergeSegment(prev, index, segment) ==
    IF prev = Null THEN Null
    ELSE IF \E i \in 1..Len(prev.segments) : prev.segments[i].index = index
         THEN prev
    ELSE [prev EXCEPT !.segments = SortByIndex(Append(prev.segments, segment))]

\* Mutant: the lookahead comparison is off by one.
NextIndexToGenerate_LookaheadInclusive(st, rt, phase, playing, lock) ==
    IF st = Null \/ rt = Null \/ phase < READY_TO_PLAY THEN 0
    ELSE LET totalGenerated == Len(st.segments)
             neededBufferIndex == playing + LOOKAHEAD
         IN  IF /\ totalGenerated <= neededBufferIndex
                /\ totalGenerated < st.totalSegmentsEstimate
                /\ ~lock
             THEN totalGenerated + 1
             ELSE 0

\* Mutant: the estimate comparison is off by one.
NextIndexToGenerate_EstimateInclusive(st, rt, phase, playing, lock) ==
    IF st = Null \/ rt = Null \/ phase < READY_TO_PLAY THEN 0
    ELSE LET totalGenerated == Len(st.segments)
             neededBufferIndex == playing + LOOKAHEAD
         IN  IF /\ totalGenerated < neededBufferIndex
                /\ totalGenerated <= st.totalSegmentsEstimate
                /\ ~lock
             THEN totalGenerated + 1
             ELSE 0

\* Mutant: the playback position is used without the lookahead.
NextIndexToGenerate_NoLookahead(st, rt, phase, playing, lock) ==
    IF st = Null \/ rt = Null \/ phase < READY_TO_PLAY THEN 0
    ELSE LET totalGenerated == Len(st.segments)
             neededBufferIndex == playing
         IN  IF /\ totalGenerated < neededBufferIndex
                /\ totalGenerated < st.totalSegmentsEstimate
                /\ ~lock
             THEN totalGenerated + 1
             ELSE 0

\* The condition of the buffering effect; the index to generate, or 0.
NextIndexToGenerate(st, rt, phase, playing, lock) ==
    IF st = Null \/ rt = Null \/ phase < READY_TO_PLAY THEN 0
    ELSE LET totalGenerated == Len(st.segments)
             neededBufferIndex == playing + LOOKAHEAD
         IN  IF /\ totalGenerated < neededBufferIndex
                /\ totalGenerated < st.totalSegmentsEstimate
                /\ ~lock
             THEN totalGenerated + 1
             ELSE 0

\* generateNextSegment(index) up to its first await: guard, lock, closure.
StartPipeline(index, st, rt, lock, pipes) ==
    IF rt = Null \/ st = Null \/ lock
    THEN [lock |-> lock, pipes |-> pipes, launched |-> 0]
    ELSE [lock |-> TRUE,
          pipes |-> Append(pipes,
                      [index |-> index,
                       route |-> rt,
                       totalSegmentsEstimate |-> st.totalSegmentsEstimate,
                       segmentOutline |-> OutlineBeat(st.outline, index, "continue"),
                       pc |-> "text",
                       segmentData |-> Null,
                       tempCtx |-> "none"]),
          launched |-> index]

\* Mutant: neither the effect nor generateNextSegment looks at the lock.
BufferingEffect_IgnoresLock(st, rt, phase, playing, lock, pipes) ==
    LET index == NextIndexToGenerate(st, rt, phase, playing, FALSE)
    IN  IF index = 0
        THEN [lock |-> lock, pipes |-> pipes, launched |-> 0]
        ELSE StartPipeline(index, st, rt, FALSE, pipes)

\* The buffering effect, run after a render in which a dependency changed.
BufferingEffect(st, rt, phase, playing, lock, pipes) ==
    LET index == NextIndexToGenerate(st, rt, phase, playing, lock)
    IN  IF index = 0
        THEN [lock |-> lock, pipes |-> pipes, launched |-> 0]
        ELSE StartPipeline(index, st, rt, lock, pipes)

RemoveAt(s, i) ==
    SubSeq(s, 1, i - 1) \o SubSeq(s, i + 1, Len(s))

NoTrigger == [evaluated |-> FALSE, lock |-> FALSE, launched |-> 0]

NoMerge == [kind |-> "none", index |-> 0, journey |-> 0]

Pending == [state |-> "pending", value |-> "none"]

\* No call of withTimeout is being observed.
WtIdle ==
    /\ wtNow = 0
    /\ wtInput = Null
    /\ wtPromise = "none"
    /\ wtTimer = "none"
    /\ wtClears = 0
    /\ wtRace = Pending
    /\ wtFirst = "none"

\* ------------------------------------------------------------------ Init
Init ==
    /\ appState = PLANNING
    /\ route = Null
    /\ story = Null
    /\ currentPlayingIndex = 0
    /\ generationError = Null
    /\ isGeneratingRef = FALSE
    /\ pipelines = <<>>
    /\ initGen = Null
    /\ isLoading = FALSE
    /\ error = Null
    /\ journeys = 0
    /\ trigger = NoTrigger
    /\ merged = NoMerge
    /\ last = [op |-> "init"]
    /\ WtIdle

\* Apply the buffering effect to the state a handler leaves behind.
RunEffect(st, rt, phase, playing, lock, pipes) ==
    LET r == BufferingEffect(st, rt, phase, playing, lock, pipes)
    IN  /\ isGeneratingRef' = r.lock
        /\ pipelines' = r.pipes
        /\ trigger' = [evaluated |-> TRUE, lock |-> lock, launched |-> r.launched]

\* --------------------------------------------------------- RoutePlanner
isLocked == appState > ROUTE_CONFIRMED

HandleCalculate ==
    /\ ~isLoading
    /\ ~isLocked
    /\ journeys < MaxJourneys
    /\ error' = Null
    /\ isLoading' = TRUE
    /\ trigger' = NoTrigger
    /\ last' = [op |-> "calculate"]
    /\ UNCHANGED <<appState, route, story, currentPlayingIndex, generationError,
                   isGeneratingRef, pipelines, initGen, journeys>>

\* handleGenerateStory(details) up to its first await.
HandleGenerateStoryStart(durationSeconds) ==
    LET details == [durationSeconds |-> durationSeconds, journey |-> journeys + 1]
    IN  /\ route' = details
        /\ generationError' = Null
        /\ appState' = GENERATING_INITIAL_SEGMENT
        /\ initGen' = [details |-> details,
                       totalSegmentsEstimate |-> calculateTotalSegments(durationSeconds),
                       pc |-> "outline",
                       outline |-> <<>>,
                       seg1Data |-> Null,
                       tempCtx |-> "none"]
        /\ journeys' = journeys + 1
        /\ RunEffect(story, details, GENERATING_INITIAL_SEGMENT,
                     currentPlayingIndex, isGeneratingRef, pipelines)
        /\ UNCHANGED <<story, currentPlayingIndex>>

\* Mutant: a journey of exactly the maximum duration is refused as well.
DurationTooLong_Inclusive(durationSeconds) ==
    durationSeconds >= MAX_DURATION_SECONDS

\* leg.duration.value > 14400
DurationTooLong(durationSeconds) ==
    durationSeconds > MAX_DURATION_SECONDS

DirectionsCallback(status, durationSeconds) ==
    /\ isLoading
    /\ isLoading' = FALSE
    /\ last' = [op |-> "directions", status |-> status,
                durationSeconds |-> durationSeconds]
    /\ IF status = "OK"
       THEN IF DurationTooLong(durationSeconds)
            THEN /\ error' = [message |-> "journey is too long"]
                 /\ trigger' = NoTrigger
                 /\ UNCHANGED <<appState, route, story, currentPlayingIndex,
                                generationError, isGeneratingRef, pipelines,
                                initGen, journeys>>
            ELSE /\ HandleGenerateStoryStart(durationSeconds)
                 /\ UNCHANGED error
       ELSE /\ error' = [message |-> IF status = "ZERO_RESULTS"
                                      THEN "could not calculate directions"
                                      ELSE "Could not calculate route"]
            /\ trigger' = NoTrigger
            /\ UNCHANGED <<appState, route, story, currentPlayingIndex,
                           generationError, isGeneratingRef, pipelines,
                           initGen, journeys>>

\* ---------------------------------------------------- initial generation
\* Error messages are sequences of words, so that String.includes can be
\* modelled by what it does.
OutlineTimeoutMessage == <<"Story", "outline", "generation", "timed", "out">>
TextTimeoutMessage == <<"Initial", "text", "generation", "timed", "out">>
AudioTimeoutMessage == <<"Initial", "audio", "generation", "timed", "out">>

\* Messages of the errors the remote generators may throw by themselves.
UpstreamErrors == { <<"upstream", "failure">>, <<"request", "timeout">> }

\* error.message.includes("timed out")
IncludesTimedOut(message) ==
    \E k \in 1..(Len(message) - 1) : message[k] = "timed" /\ message[k + 1] = "out"

\* error.message.includes("timeout")
IncludesTimeout(message) ==
    \E k \in 1..Len(message) : message[k] = "timeout"

GenericFailureMessage == "Failed to start story stream"
TimeoutFailureMessage == "Story generation timed out"

\* Mutant: only the word "timeout" is looked for.
SurfacedMessage_TimeoutWordOnly(thrown) ==
    IF IncludesTimeout(thrown) THEN TimeoutFailureMessage
    ELSE GenericFailureMessage

\* The message the catch block of handleGenerateStory shows for an error.
SurfacedMessage(thrown) ==
    IF IncludesTimedOut(thrown) \/ IncludesTimeout(thrown)
    THEN TimeoutFailureMessage
    ELSE GenericFailureMessage

\* The error a guarded call throws: the guard's message on a timeout, the
\* operation's own error otherwise.
Thrown(outcome, timeoutMessage, upstream) ==
    IF outcome = "timeout" THEN timeoutMessage ELSE upstream

\* Mutant: the catch block leaves the phase at ROUTE_CONFIRMED.
InitialFailure_RouteConfirmed(outcome, thrown) ==
    LET message == [message |-> SurfacedMessage(thrown)]
    IN  /\ appState' = ROUTE_CONFIRMED
        /\ generationError' = message
        /\ error' = message
        /\ initGen' = Null
        /\ last' = [op |-> "initialFailure", timedOut |-> (outcome = "timeout"),
                    tempCtx |-> initGen.tempCtx]
        /\ RunEffect(story, route, ROUTE_CONFIRMED, currentPlayingIndex,
                     isGeneratingRef, pipelines)
        /\ UNCHANGED <<route, story, currentPlayingIndex, isLoading, journeys>>

\* The catch block of handleGenerateStory.
InitialFailure(outcome, thrown) ==
    LET message == [message |-> SurfacedMessage(thrown)]
    IN  /\ appState' = PLANNING
        /\ generationError' = message
        /\ error' = message
        /\ initGen' = Null
        /\ last' = [op |-> "initialFailure", timedOut |-> (outcome = "timeout"),
                    tempCtx |-> initGen.tempCtx]
        /\ RunEffect(story, route, PLANNING, currentPlayingIndex,
                     isGeneratingRef, pipelines)
        /\ UNCHANGED <<route, story, currentPlayingIndex, isLoading, journeys>>

InitialOutlineDone(outcome, outline) ==
    /\ initGen # Null
    /\ initGen.pc = "outline"
    /\ IF outcome = "ok"
       THEN /\ initGen' = [initGen EXCEPT !.pc = "text", !.outline = outline]
            /\ trigger' = NoTrigger
            /\ last' = [op |-> "initialStep"]
            /\ UNCHANGED <<appState, route, story, currentPlayingIndex,
                           generationError, isGeneratingRef, pipelines,
                           isLoading, error, journeys>>
       ELSE \E upstream \in UpstreamErrors :
                InitialFailure(outcome,
                               Thrown(outcome, OutlineTimeoutMessage, upstream))

InitialTextDone(outcome) ==
    /\ initGen # Null
    /\ initGen.pc = "text"
    /\ IF outcome = "ok"
       THEN /\ initGen' = [initGen EXCEPT !.pc = "audio",
                              !.seg1Data = generateSegment(initGen.details, 1),
                              !.tempCtx = "open"]
            /\ trigger' = NoTrigger
            /\ last' = [op |-> "initialStep"]
            /\ UNCHANGED <<appState, route, story, currentPlayingIndex,
                           generationError, isGeneratingRef, pipelines,
                           isLoading, error, journeys>>
       ELSE \E upstream \in UpstreamErrors :
                InitialFailure(outcome,
                               Thrown(outcome, TextTimeoutMessage, upstream))

\* Mutant: the new story is built without the outline.
InitialStory_NoOutline(totalSegmentsEstimate, outline, seg1Data) ==
    [totalSegmentsEstimate |-> totalSegmentsEstimate,
     outline |-> <<>>,
     segments |-> <<WithAudio(seg1Data)>>]

\* setStory({ totalSegmentsEstimate, outline, segments: [segment 1] })
InitialStory(totalSegmentsEstimate, outline, seg1Data) ==
    [totalSegmentsEstimate |-> totalSegmentsEstimate,
     outline |-> outline,
     segments |-> <<WithAudio(seg1Data)>>]

InitialAudioDone(outcome) ==
    /\ initGen # Null
    /\ initGen.pc = "audio"
    /\ IF outcome = "ok"
       THEN LET newStory == InitialStory(initGen.totalSegmentsEstimate,
                                         initGen.outline, initGen.seg1Data)
            IN  /\ story' = newStory
                /\ appState' = READY_TO_PLAY
                /\ initGen' = Null
                /\ last' = [op |-> "initialSuccess", tempCtx |-> "closed"]
                /\ RunEffect(newStory, route, READY_TO_PLAY, currentPlayingIndex,
                             isGeneratingRef, pipelines)
                /\ UNCHANGED <<route, currentPlayingIndex, generationError,
                               isLoading, error, journeys>>
       ELSE \E upstream \in UpstreamErrors :
                InitialFailure(outcome,
                               Thrown(outcome, AudioTimeoutMessage, upstream))

\* ------------------------------------------------------ playback / reset
PlayerVisible == appState >= READY_TO_PLAY /\ story # Null /\ route # Null

\* onSegmentChange(index): setCurrentPlayingIndex(index), then the effect.
SegmentChange(index) ==
    /\ PlayerVisible
    /\ index # currentPlayingIndex
    /\ currentPlayingIndex' = index
    /\ last' = [op |-> "segmentChange"]
    /\ RunEffect(story, route, appState, index, isGeneratingRef, pipelines)
    /\ UNCHANGED <<appState, route, story, generationError, initGen,
                   isLoading, error, journeys>>

\* Mutant: the reset forgets to rewind the playback position.
HandleReset_KeepsPlayingIndex ==
    /\ PlayerVisible
    /\ appState' = PLANNING
    /\ route' = Null
    /\ story' = Null
    /\ currentPlayingIndex' = currentPlayingIndex
    /\ generationError' = Null
    /\ last' = [op |-> "reset"]
    /\ isGeneratingRef' = FALSE
    /\ pipelines' = pipelines
    /\ trigger' = [evaluated |-> TRUE, lock |-> FALSE, launched |-> 0]
    /\ UNCHANGED <<initGen, isLoading, error, journeys>>

\* Mutant: the reset forgets to drop the story timeline.
HandleReset_KeepsStory ==
    /\ PlayerVisible
    /\ appState' = PLANNING
    /\ route' = Null
    /\ story' = story
    /\ currentPlayingIndex' = 0
    /\ generationError' = Null
    /\ last' = [op |-> "reset"]
    /\ LET r == BufferingEffect(story, Null, PLANNING, 0, FALSE, pipelines)
       IN  /\ isGeneratingRef' = r.lock
           /\ pipelines' = r.pipes
           /\ trigger' = [evaluated |-> TRUE, lock |-> FALSE, launched |-> r.launched]
    /\ UNCHANGED <<initGen, isLoading, error, journeys>>

HandleReset ==
    /\ PlayerVisible
    /\ appState' = PLANNING
    /\ route' = Null
    /\ story' = Null
    /\ currentPlayingIndex' = 0
    /\ generationError' = Null
    /\ last' = [op |-> "reset"]
    /\ LET r == BufferingEffect(Null, Null, PLANNING, 0, FALSE, pipelines)
       IN  /\ isGeneratingRef' = r.lock
           /\ pipelines' = r.pipes
           /\ trigger' = [evaluated |-> TRUE, lock |-> FALSE, launched |-> r.launched]
    /\ UNCHANGED <<initGen, isLoading, error, journeys>>

\* -------------------------------------------------- background pipeline
\* Mutant: the finally block is missing, the lock stays as it was.
PipelineFailure_KeepsLock(i, outcome) ==
    /\ isGeneratingRef' = isGeneratingRef
    /\ pipelines' = RemoveAt(pipelines, i)
    /\ trigger' = NoTrigger
    /\ merged' = NoMerge
    /\ last' = [op |-> "pipelineFailure", index |-> pipelines[i].index,
                timedOut |-> (outcome = "timeout"),
                tempCtx |-> pipelines[i].tempCtx]
    /\ UNCHANGED <<appState, route, story, currentPlayingIndex, generationError,
                   initGen, isLoading, error, journeys>>

\* Mutant: the trigger is evaluated again after a failed pipeline.
PipelineFailure_ReEvaluates(i, outcome) ==
    /\ RunEffect(story, route, appState, currentPlayingIndex, FALSE,
                 RemoveAt(pipelines, i))
    /\ merged' = NoMerge
    /\ last' = [op |-> "pipelineFailure", index |-> pipelines[i].index,
                timedOut |-> (outcome = "timeout"),
                tempCtx |-> pipelines[i].tempCtx]
    /\ UNCHANGED <<appState, route, story, currentPlayingIndex, generationError,
                   initGen, isLoading, error, journeys>>

\* catch + finally of generateNextSegment.
PipelineFailure(i, outcome) ==
    /\ isGeneratingRef' = FALSE
    /\ pipelines' = RemoveAt(pipelines, i)
    /\ trigger' = NoTrigger
    /\ merged' = NoMerge
    /\ last' = [op |-> "pipelineFailure", index |-> pipelines[i].index,
                timedOut |-> (outcome = "timeout"),
                tempCtx |-> pipelines[i].tempCtx]
    /\ UNCHANGED <<appState, route, story, currentPlayingIndex, generationError,
                   initGen, isLoading, error, journeys>>

\* Mutant: the text call is awaited without a deadline; when the generator
\* never responds the invocation waits forever.
PipelineTextDone_NoDeadline(i, outcome) ==
    /\ i \in 1..Len(pipelines)
    /\ pipelines[i].pc = "text"
    /\ IF outcome = "ok"
       THEN /\ pipelines' = [pipelines EXCEPT ![i].pc = "audio",
                   ![i].segmentData = generateSegment(pipelines[i].route,
                                                      pipelines[i].index),
                   ![i].tempCtx = "open"]
            /\ trigger' = NoTrigger
            /\ merged' = NoMerge
            /\ last' = [op |-> "pipelineStep"]
            /\ UNCHANGED <<appState, route, story, currentPlayingIndex,
                           generationError, isGeneratingRef, initGen,
                           isLoading, error, journeys>>
       ELSE IF outcome = "timeout"
       THEN /\ pipelines' = [pipelines EXCEPT ![i].pc = "waiting"]
            /\ trigger' = NoTrigger
            /\ merged' = NoMerge
            /\ last' = [op |-> "pipelineStep"]
            /\ UNCHANGED <<appState, route, story, currentPlayingIndex,
                           generationError, isGeneratingRef, initGen,
                           isLoading, error, journeys>>
       ELSE PipelineFailure(i, outcome)

PipelineTextDone(i, outcome) ==
    /\ i \in 1..Len(pipelines)
    /\ pipelines[i].pc = "text"
    /\ IF outcome = "ok"
       THEN /\ pipelines' = [pipelines EXCEPT ![i].pc = "audio",
                   ![i].segmentData = generateSegment(pipelines[i].route,
                                                      pipelines[i].index),
                   ![i].tempCtx = "open"]
            /\ trigger' = NoTrigger
            /\ merged' = NoMerge
            /\ last' = [op |-> "pipelineStep"]
            /\ UNCHANGED <<appState, route, story, currentPlayingIndex,
                           generationError, isGeneratingRef, initGen,
                           isLoading, error, journeys>>
       ELSE PipelineFailure(i, outcome)

PipelineAudioDone(i, outcome) ==
    /\ i \in 1..Len(pipelines)
    /\ pipelines[i].pc = "audio"
    /\ IF outcome = "ok"
       THEN LET p == pipelines[i]
                newStory == MergeSegment(story, p.index, WithAudio(p.segmentData))
                rest == RemoveAt(pipelines, i)
            IN  /\ story' = newStory
                /\ merged' = [kind |-> IF story = Null THEN "no timeline"
                                       ELSE IF newStory = story THEN "discarded"
                                       ELSE "appended",
                              index |-> p.index,
                              journey |-> p.route.journey]
                /\ last' = [op |-> "pipelineSuccess", index |-> p.index,
                            tempCtx |-> "closed"]
                /\ IF newStory # story
                   THEN RunEffect(newStory, route, appState, currentPlayingIndex,
                                  FALSE, rest)
                   ELSE /\ isGeneratingRef' = FALSE
                        /\ pipelines' = rest
                        /\ trigger' = NoTrigger
                /\ UNCHANGED <<appState, route, currentPlayingIndex,
                               generationError, initGen, isLoading, error,
                               journeys>>
       ELSE PipelineFailure(i, outcome)

\* ---------------------------------------------------------- withTimeout
\* Deadlines (ms), values, error messages and operation errors drawn for
\* one call of withTimeout(promise, ms, errorMsg).
Deadlines == {1, 2, 3}
Values == {"v1", "v2"}
Messages == {"msgA", "msgB"}
OpErrors == {"e1", "e2"}

\* Mutant: a later settlement overwrites the earlier one.
RaceSettle_LastWins(race, state, value) ==
    [state |-> state, value |-> value]

\* Promise.race: the returned promise takes the first settlement only.
RaceSettle(race, state, value) ==
    IF race.state = "pending" THEN [state |-> state, value |-> value] ELSE race

\* clearTimeout(timer): cancels a pending timer, no effect on a fired one.
ClearTimeout(timer) ==
    IF timer = "pending" THEN "cleared" ELSE timer

FirstEvent(event) ==
    wtFirst' = (IF wtFirst = "none" THEN event ELSE wtFirst)

\* The wrapped promise resolves; its then-callback clears the timer and
\* passes the value on to the race.
WtResolve ==
    /\ wtPromise = "pending"
    /\ wtPromise' = "resolved"
    /\ wtTimer' = ClearTimeout(wtTimer)
    /\ wtClears' = wtClears + 1
    /\ wtRace' = RaceSettle(wtRace, "fulfilled", wtInput.value)
    /\ FirstEvent("resolve")
    /\ UNCHANGED <<wtNow, wtInput>>

\* The wrapped promise rejects; then() has no rejection handler, so the
\* rejection goes to the race and the timer is not touched.
WtReject ==
    /\ wtPromise = "pending"
    /\ wtPromise' = "rejected"
    /\ wtRace' = RaceSettle(wtRace, "rejected", wtInput.opError)
    /\ FirstEvent("reject")
    /\ UNCHANGED <<wtNow, wtInput, wtTimer, wtClears>>

\* The setTimeout callback: reject(new Error(errorMsg)).
WtTimerFire ==
    /\ wtTimer = "pending"
    /\ wtNow >= wtInput.ms
    /\ wtTimer' = "fired"
    /\ wtRace' = RaceSettle(wtRace, "rejected", wtInput.errorMsg)
    /\ FirstEvent("timeout")
    /\ UNCHANGED <<wtNow, wtInput, wtPromise, wtClears>>

\* One millisecond passes; a due timer fires before time moves on.
WtTick ==
    /\ wtNow < MaxTime
    /\ ~(wtTimer = "pending" /\ wtNow >= wtInput.ms)
    /\ wtNow' = wtNow + 1
    /\ UNCHANGED <<wtInput, wtPromise, wtTimer, wtClears, wtRace, wtFirst>>

\* The state right after withTimeout(promise, ms, errorMsg) returned.
InitTimeout ==
    /\ appState = PLANNING
    /\ route = Null
    /\ story = Null
    /\ currentPlayingIndex = 0
    /\ generationError = Null
    /\ isGeneratingRef = FALSE
    /\ pipelines = <<>>
    /\ initGen = Null
    /\ isLoading = FALSE
    /\ error = Null
    /\ journeys = 0
    /\ trigger = NoTrigger
    /\ merged = NoMerge
    /\ last = [op |-> "init"]
    /\ wtNow = 0
    /\ wtInput \in [ms : Deadlines, errorMsg : Messages, value : Values,
                    opError : OpErrors]
    /\ wtPromise = "pending"
    /\ wtTimer = "pending"
    /\ wtClears = 0
    /\ wtRace = Pending
    /\ wtFirst = "none"

NextTimeout ==
    \/ WtResolve /\ UNCHANGED appVars
    \/ WtReject /\ UNCHANGED appVars
    \/ WtTimerFire /\ UNCHANGED appVars
    \/ WtTick /\ UNCHANGED appVars

SpecTimeout == InitTimeout /\ [][NextTimeout]_vars

\* ------------------------------------------------------------------ Next
NoMergeStep == merged' = NoMerge /\ UNCHANGED wtVars

Next ==
    \/ HandleCalculate /\ NoMergeStep
    \/ \E s \in DirectionsStatuses, d \in Durations :
          DirectionsCallback(s, d) /\ NoMergeStep
    \/ \E o \in Outcomes, ol \in Outlines :
          InitialOutlineDone(o, ol) /\ NoMergeStep
    \/ \E o \in Outcomes : InitialTextDone(o) /\ NoMergeStep
    \/ \E o \in Outcomes : InitialAudioDone(o) /\ NoMergeStep
    \/ \E k \in 0..MaxPlayingIndex : SegmentChange(k) /\ NoMergeStep
    \/ HandleReset /\ NoMergeStep
    \/ \E i \in 1..Len(pipelines), o \in Outcomes :
          PipelineTextDone(i, o) /\ UNCHANGED wtVars
    \/ \E i \in 1..Len(pipelines), o \in Outcomes :
          PipelineAudioDone(i, o) /\ UNCHANGED wtVars

Spec == Init /\ [][Next]_vars

\* Buffering without resets and with pipelines that always succeed: every
\* remote wait ends (each is bounded by its deadline), here with a result.
PipelineTextSucceeds ==
    \E i \in 1..Len(pipelines) : PipelineTextDone(i, "ok") /\ UNCHANGED wtVars

PipelineAudioSucceeds ==
    \E i \in 1..Len(pipelines) : PipelineAudioDone(i, "ok") /\ UNCHANGED wtVars

NextLive ==
    \/ HandleCalculate /\ NoMergeStep
    \/ \E s \in DirectionsStatuses, d \in Durations :
          DirectionsCallback(s, d) /\ NoMergeStep
    \/ \E o \in Outcomes, ol \in Outlines :
          InitialOutlineDone(o, ol) /\ NoMergeStep
    \/ \E o \in Outcomes : InitialTextDone(o) /\ NoMergeStep
    \/ \E o \in Outcomes : InitialAudioDone(o) /\ NoMergeStep
    \/ \E k \in 0..MaxPlayingIndex : SegmentChange(k) /\ NoMergeStep
    \/ PipelineTextSucceeds
    \/ PipelineAudioSucceeds

SpecLive ==
    /\ Init
    /\ [][NextLive]_vars
    /\ WF_vars(PipelineTextSucceeds)
    /\ WF_vars(PipelineAudioSucceeds)

\* Every guarded remote wait of a running pipeline settles: with the
\* generator's answer, with its error, or with the rejection of the
\* deadline timer of withTimeout.
PipelineTextSettles ==
    \E i \in 1..Len(pipelines), o \in Outcomes :
        PipelineTextDone(i, o) /\ UNCHANGED wtVars

PipelineAudioSettles ==
    \E i \in 1..Len(pipelines), o \in Outcomes :
        PipelineAudioDone(i, o) /\ UNCHANGED wtVars

\* A journey that is not reset: the lock can only be released by the
\* pipeline that holds it. Every remote call may succeed, fail or run into
\* its deadline.
NextTerminates ==
    \/ HandleCalculate /\ NoMergeStep
    \/ \E s \in DirectionsStatuses, d \in Durations :
          DirectionsCallback(s, d) /\ NoMergeStep
    \/ \E o \in Outcomes, ol \in Outlines :
          InitialOutlineDone(o, ol) /\ NoMergeStep
    \/ \E o \in Outcomes : InitialTextDone(o) /\ NoMergeStep
    \/ \E o \in Outcomes : InitialAudioDone(o) /\ NoMergeStep
    \/ \E k \in 0..MaxPlayingIndex : SegmentChange(k) /\ NoMergeStep
    \/ PipelineTextSettles
    \/ PipelineAudioSettles

SpecTerminates ==
    /\ Init
    /\ [][NextTerminates]_vars
    /\ WF_vars(PipelineTextSettles)
    /\ WF_vars(PipelineAudioSettles)

\* ================================================================ claims

SegmentIndices(st) == {st.segments[i].index : i \in 1..Len(st.segments)}

\* C1: whenever a story timeline exists, its segments are sorted strictly
\* ascending by index (sorted, and no two segments share an index).
C1_SegmentsStrictlyAscending ==
    story # Null =>
        \A i \in 1..(Len(story.segments) - 1) :
            story.segments[i].index < story.segments[i + 1].index

\* C1 witness: a merge has just appended a segment that the sort moved in
\* front of segments already present.
C1_Witness_OutOfOrderMerge ==
    /\ story # Null
    /\ merged.kind = "appended"
    /\ Len(story.segments) >= 3
    /\ story.segments[Len(story.segments)].index # merged.index

\* C2: at most one background generation pipeline is executing at any
\* instant, also across resets and subsequent new journeys.
C2_AtMostOnePipeline ==
    Len(pipelines) <= 1

\* C3: a trigger evaluation launches a pipeline if and only if a timeline
\* and a route exist, the phase is ReadyToPlay, generated < playbackIndex + 3,
\* generated < totalSegmentsEstimate and the lock was free; the launched
\* index is generated + 1 and the lock is taken in the same step.
C3_TriggerCorrect ==
    trigger.evaluated =>
        LET shouldLaunch ==
                /\ story # Null
                /\ route # Null
                /\ appState = READY_TO_PLAY
                /\ Len(story.segments) < currentPlayingIndex + 3
                /\ Len(story.segments) < story.totalSegmentsEstimate
                /\ ~trigger.lock
        IN  /\ (trigger.launched # 0) <=> shouldLaunch
            /\ trigger.launched # 0 =>
                  /\ trigger.launched = Len(story.segments) + 1
                  /\ isGeneratingRef
                  /\ pipelines # <<>>
                  /\ pipelines[Len(pipelines)].index = trigger.launched
                  /\ pipelines[Len(pipelines)].pc = "text"
            /\ (/\ story # Null
                /\ Len(story.segments) = 4
                /\ currentPlayingIndex = 0) => trigger.launched = 0

\* C3 witness: generated = 1, playbackIndex = 0, lock free, and the
\* evaluation launched index 2.
C3_Witness_LaunchIndex2 ==
    /\ trigger.evaluated
    /\ ~trigger.lock
    /\ trigger.launched = 2
    /\ currentPlayingIndex = 0
    /\ story # Null
    /\ Len(story.segments) = 1
    /\ story.totalSegmentsEstimate > 2
    /\ journeys = 1

\* C4: a pipeline started before a reset never appends its segment to a
\* timeline created after that reset.
C4_StaleMergeIgnored ==
    merged.kind = "appended" =>
        (route # Null /\ merged.journey = route.journey)

\* C5: a timeline never holds more segments than its estimate, and no
\* segment index exceeds the estimate.
C5_NeverPastEstimate ==
    story # Null =>
        /\ Len(story.segments) <= story.totalSegmentsEstimate
        /\ \A k \in SegmentIndices(story) : k <= story.totalSegmentsEstimate

\* C6: once the timeline holds as many segments as the estimate, no step
\* launches a pipeline, whatever the playback position is.
C6_NoLaunchAtEstimate ==
    (story # Null /\ Len(story.segments) >= story.totalSegmentsEstimate)
        => trigger.launched = 0

\* C6 witness: the timeline is full, the lock is free and the lookahead
\* alone would ask for more, and the evaluation launched nothing.
C6_Witness_FullTimeline ==
    /\ story # Null
    /\ Len(story.segments) = story.totalSegmentsEstimate
    /\ Len(story.segments) >= 2
    /\ Len(story.segments) < currentPlayingIndex + LOOKAHEAD
    /\ trigger.evaluated
    /\ ~trigger.lock
    /\ trigger.launched = 0

\* C7: merging is idempotent per index: a segment once in the timeline
\* stays as it is, and its index occurs exactly once afterwards; a second
\* completion for that index is discarded, not merged or substituted.
C7_MergeIdempotent ==
    [][(story # Null /\ story' # Null) =>
          \A i \in 1..Len(story.segments) :
              /\ \E j \in 1..Len(story'.segments) :
                     story'.segments[j] = story.segments[i]
              /\ Cardinality({j \in 1..Len(story'.segments) :
                     story'.segments[j].index = story.segments[i].index}) = 1]_vars

\* C7 witness: a completion for an index already present was discarded, and
\* the segment kept is the one another pipeline delivered first.
C7_Witness_DuplicateDiscarded ==
    /\ story # Null
    /\ merged.kind = "discarded"
    /\ \E i \in 1..Len(story.segments) :
          /\ story.segments[i].index = merged.index
          /\ story.segments[i].text # <<merged.journey, merged.index>>

\* C8: withTimeout settles with the first event: the operation's value if
\* it resolves first, the caller's message if the deadline elapses first
\* (the operation's error if it rejects first); later events change nothing.
C8_SettlesWithFirstEvent ==
    /\ wtFirst = "none" => wtRace = Pending
    /\ wtFirst = "resolve" =>
          wtRace = [state |-> "fulfilled", value |-> wtInput.value]
    /\ wtFirst = "timeout" =>
          wtRace = [state |-> "rejected", value |-> wtInput.errorMsg]
    /\ wtFirst = "reject" =>
          wtRace = [state |-> "rejected", value |-> wtInput.opError]

\* C8 witness: the deadline elapsed first and the operation resolved later.
C8_Witness_LateResolution ==
    /\ wtFirst = "timeout"
    /\ wtPromise = "resolved"
    /\ wtRace.state = "rejected"

\* C9: once withTimeout has settled the deadline timer is not left pending
\* and was cancelled at most once; when the operation completed first
\* (resolved or rejected) the timer was cancelled and never fires.
C9_TimerNeverLeftPending ==
    wtRace.state # "pending" =>
        /\ wtTimer # "pending"
        /\ wtClears <= 1
        /\ wtFirst \in {"resolve", "reject"} => wtTimer = "cleared"

\* C10: when the outline, the first text and the first audio all succeed,
\* the submission ends in ReadyToPlay with a new timeline holding exactly
\* segment 1, the computed estimate and the outline.
C10_InitialSuccess ==
    [][(/\ initGen # Null
        /\ initGen.pc = "audio"
        /\ initGen' = Null
        /\ generationError' = Null) =>
          /\ appState = GENERATING_INITIAL_SEGMENT
          /\ story = Null
          /\ appState' = READY_TO_PLAY
          /\ story' # Null
          /\ Len(story'.segments) = 1
          /\ story'.segments[1].index = 1
          /\ story'.segments[1].text = initGen.seg1Data.text
          /\ story'.totalSegmentsEstimate = initGen.totalSegmentsEstimate
          /\ story'.outline = initGen.outline]_vars

\* C10 witness: the first journey has just become ready with a two-beat
\* outline and an estimate of one segment.
C10_Witness_FirstSegmentReady ==
    /\ appState = READY_TO_PLAY
    /\ journeys = 1
    /\ initGen = Null
    /\ story # Null
    /\ Len(story.segments) = 1
    /\ story.totalSegmentsEstimate = 1
    /\ story.outline = <<"beat1", "beat2">>
    /\ pipelines = <<>>
    /\ currentPlayingIndex = 0
    /\ trigger.evaluated

InvocationReturned ==
    last.op \in {"initialFailure", "initialSuccess",
                 "pipelineFailure", "pipelineSuccess"}

Min(a, b) == IF a < b THEN a ELSE b

\* C11: when a step of the initial generation fails or times out, the phase
\* goes from GeneratingInitialSegment straight to Planning, no timeline is
\* created and an error is surfaced; after a deadline expiry the surfaced
\* message is the timeout one.
C11_InitialFailureReverts ==
    [][last'.op = "initialFailure" =>
          /\ appState = GENERATING_INITIAL_SEGMENT
          /\ appState' = PLANNING
          /\ story' = Null
          /\ generationError' # Null
          /\ error' = generationError'
          /\ last'.timedOut =>
                generationError'.message = TimeoutFailureMessage]_vars

\* C11 witness: a guarded call of the initial generation has just timed out.
C11_Witness_InitialTimeout ==
    /\ last.op = "initialFailure"
    /\ last.timedOut
    /\ appState = PLANNING
    /\ story = Null
    /\ generationError = [message |-> TimeoutFailureMessage]

\* C12: after a failed initial generation neither a route nor a timeline
\* is held.
C12_FailureDiscardsSessionData ==
    last.op = "initialFailure" => (route = Null /\ story = Null)

\* C13: a failed background pipeline leaves the timeline, the phase and the
\* user-facing error unchanged and releases the lock.
C13_BackgroundFailureSilent ==
    [][last'.op = "pipelineFailure" =>
          /\ story' = story
          /\ appState' = appState
          /\ generationError' = generationError
          /\ error' = error
          /\ ~isGeneratingRef']_vars

\* C13 witness: a background pipeline has just failed while playing.
C13_Witness_BackgroundFailure ==
    /\ last.op = "pipelineFailure"
    /\ appState = READY_TO_PLAY
    /\ story # Null
    /\ generationError = Null
    /\ ~isGeneratingRef

LaunchCondition ==
    /\ story # Null
    /\ route # Null
    /\ appState = READY_TO_PLAY
    /\ Len(story.segments) < currentPlayingIndex + LOOKAHEAD
    /\ Len(story.segments) < story.totalSegmentsEstimate

\* C14 (as claimed): when a pipeline fails while the launch condition still
\* holds, a new pipeline is launched in the same step.
C14_FailureRetriggers ==
    (last.op = "pipelineFailure" /\ LaunchCondition) => trigger.launched # 0

\* C14 (amended): a failed pipeline releases the lock and launches nothing,
\* the trigger is not evaluated; a completion that appends to the timeline
\* does evaluate the trigger.
C14_FailureDoesNotRetrigger ==
    [][/\ last'.op = "pipelineFailure" =>
            /\ Len(pipelines') = Len(pipelines) - 1
            /\ ~isGeneratingRef'
            /\ ~trigger'.evaluated
       /\ merged'.kind = "appended" => trigger'.evaluated]_vars

\* C14 witness: a pipeline has failed, the launch condition holds, the lock
\* is free and nothing is running: the buffer stalls until the next change.
C14_Witness_StallAfterFailure ==
    /\ last.op = "pipelineFailure"
    /\ LaunchCondition
    /\ ~isGeneratingRef
    /\ pipelines = <<>>

\* C15: without resets and with pipelines that complete successfully, a
\* timeline shorter than min(playbackIndex + 3, estimate) eventually reaches
\* that length.
C15_BufferCatchesUp ==
    (/\ appState = READY_TO_PLAY
     /\ story # Null
     /\ Len(story.segments) <
          Min(currentPlayingIndex + LOOKAHEAD, story.totalSegmentsEstimate))
    ~> (/\ story # Null
        /\ Len(story.segments) >=
             Min(currentPlayingIndex + LOOKAHEAD, story.totalSegmentsEstimate))

\* C15 witness: the buffer has been filled to playbackIndex + 3 by
\* successive pipelines.
C15_Witness_BufferFilled ==
    /\ appState = READY_TO_PLAY
    /\ story # Null
    /\ merged.kind = "appended"
    /\ currentPlayingIndex = 1
    /\ Len(story.segments) = currentPlayingIndex + LOOKAHEAD
    /\ story.totalSegmentsEstimate > Len(story.segments)

\* C16: when a pipeline invocation (background or initial) has returned,
\* the audio context it acquired is not left open.
C16_ContextReleased ==
    InvocationReturned => last.tempCtx # "open"

\* C17: a reset leaves, in one step, phase Planning, no route, no timeline,
\* playback index 0, no generation error and the lock free.
C17_ResetPostState ==
    [][last'.op = "reset" =>
          /\ appState' = PLANNING
          /\ route' = Null
          /\ story' = Null
          /\ currentPlayingIndex' = 0
          /\ generationError' = Null
          /\ ~isGeneratingRef']_vars

\* C17 witness: a reset happened while a pipeline was running.
C17_Witness_ResetWhileGenerating ==
    /\ last.op = "reset"
    /\ pipelines # <<>>
    /\ ~isGeneratingRef
    /\ route = Null
    /\ story = Null

\* C18: while a timeline exists, a step leaves its segments unchanged or
\* adds exactly one segment; none is removed or replaced.
C18_SegmentsOnlyGrow ==
    [][(story # Null /\ story' # Null) =>
          \/ story'.segments = story.segments
          \/ \E k \in 1..Len(story'.segments) :
                /\ RemoveAt(story'.segments, k) = story.segments
                /\ \A i \in 1..Len(story.segments) :
                      story.segments[i].index # story'.segments[k].index]_vars

\* C18 witness: a pipeline has just added a segment to a timeline that
\* already held two.
C18_Witness_SegmentAdded ==
    /\ story # Null
    /\ merged.kind = "appended"
    /\ Len(story.segments) = 3
    /\ story.segments[3].index = merged.index

\* C19: a resolved route longer than 14400 s is refused with an error and
\* starts nothing; a route of at most 14400 s starts the initial
\* generation; every journey that starts lasts at most 14400 s.
C19_DurationLimit ==
    [][/\ (last'.op = "directions" /\ last'.status = "OK") =>
            IF last'.durationSeconds > 14400
            THEN /\ error' = [message |-> "journey is too long"]
                 /\ appState = PLANNING
                 /\ appState' = PLANNING
                 /\ route' = route
                 /\ initGen' = initGen
                 /\ journeys' = journeys
            ELSE /\ appState' = GENERATING_INITIAL_SEGMENT
                 /\ initGen' # Null
                 /\ route' # Null
                 /\ route'.durationSeconds = last'.durationSeconds
       /\ route' # Null => route'.durationSeconds <= 14400
       /\ initGen' # Null => initGen'.details.durationSeconds <= 14400]_vars

\* C19 witness: a route of 14401 s has just been refused.
C19_Witness_TooLongRefused ==
    /\ last.op = "directions"
    /\ last.status = "OK"
    /\ last.durationSeconds = 14401
    /\ appState = PLANNING
    /\ error = [message |-> "journey is too long"]

\* C20: the phase changes only along Planning -> GeneratingInitialSegment
\* (route submission, one step), GeneratingInitialSegment -> ReadyToPlay
\* (initial generation succeeded), GeneratingInitialSegment -> Planning
\* (initial generation failed) and ReadyToPlay -> Planning (reset);
\* RouteConfirmed is never a state of the program.
C20_PhaseTransitions ==
    [][/\ appState' # ROUTE_CONFIRMED
       /\ appState' # appState =>
            \/ /\ appState = PLANNING
               /\ appState' = GENERATING_INITIAL_SEGMENT
               /\ last'.op = "directions"
            \/ /\ appState = GENERATING_INITIAL_SEGMENT
               /\ appState' = READY_TO_PLAY
               /\ last'.op = "initialSuccess"
            \/ /\ appState = GENERATING_INITIAL_SEGMENT
               /\ appState' = PLANNING
               /\ last'.op = "initialFailure"
            \/ /\ appState = READY_TO_PLAY
               /\ appState' = PLANNING
               /\ last'.op = "reset"]_vars

\* C20 witness: a second route has been submitted after the phase had
\* returned to Planning.
C20_Witness_SecondSubmission ==
    /\ last.op = "directions"
    /\ appState = GENERATING_INITIAL_SEGMENT
    /\ journeys = 2
    /\ route.journey = 2

\* C21: the lock is set if and only if a background pipeline is executing,
\* and it is released only by the completion of the invocation holding it:
\* a step that clears the lock is a pipeline completion that leaves no
\* pipeline running.
C21_LockIffPipelineRunning ==
    [][/\ isGeneratingRef' <=> (pipelines' # <<>>)
       /\ (isGeneratingRef /\ ~isGeneratingRef') =>
             /\ last'.op \in {"pipelineSuccess", "pipelineFailure"}
             /\ Len(pipelines) = 1]_vars

\* C22: while the phase is GeneratingInitialSegment exactly one initial
\* generation is running and no background pipeline is executing; an
\* initial generation is started only when none is running.
C22_InitialGenerationRunsAlone ==
    [][/\ appState' = GENERATING_INITIAL_SEGMENT =>
             (initGen' # Null /\ pipelines' = <<>>)
       /\ journeys' # journeys =>
             (initGen = Null /\ appState = PLANNING)]_vars

\* C23: when a background pipeline for index k of the current timeline
\* fails, the timeline has not advanced past k - 1, so the index a later
\* trigger evaluation computes for that timeline, generated + 1, is k again.
C23_FailureRetriesSameIndex ==
    [][(/\ last'.op = "pipelineFailure"
        /\ story # Null
        /\ \E i \in 1..Len(pipelines) :
              /\ pipelines' = RemoveAt(pipelines, i)
              /\ pipelines[i].index = last'.index
              /\ pipelines[i].route = route) =>
          /\ story' = story
          /\ Len(story'.segments) + 1 = last'.index]_vars

\* C24: a trigger evaluation made while the lock is held is a no-op: it
\* launches nothing and leaves the lock held and the running pipelines as
\* they are; a change of the playback position during a pipeline changes
\* nothing but the playback position.
C24_EvaluationUnderLockIsNoOp ==
    [][/\ (trigger'.evaluated /\ trigger'.lock) =>
             /\ trigger'.launched = 0
             /\ isGeneratingRef'
             /\ pipelines' = pipelines
       /\ (last'.op = "segmentChange" /\ isGeneratingRef) =>
             /\ trigger'.evaluated
             /\ trigger'.lock
             /\ isGeneratingRef'
             /\ pipelines' = pipelines
             /\ story' = story
             /\ route' = route
             /\ appState' = appState]_vars

\* C24 witness: the playback position changed while the lock was held and
\* the timeline was short of both the lookahead and the estimate; the
\* evaluation launched nothing.
C24_Witness_RedundantEvaluation ==
    /\ last.op = "segmentChange"
    /\ trigger.evaluated
    /\ trigger.lock
    /\ trigger.launched = 0
    /\ isGeneratingRef
    /\ Len(pipelines) = 1
    /\ LaunchCondition

\* C25: a route is held if and only if a timeline is held: both appear in
\* the same step and both disappear in the same step.
C25_RouteIffTimeline ==
    (route # Null) <=> (story # Null)

\* The lock is held by the most recently launched pipeline, and that
\* pipeline generates index k.
LockHeldFor(k) ==
    /\ isGeneratingRef
    /\ pipelines # <<>>
    /\ pipelines[Len(pipelines)].index = k

\* C26: once a background pipeline has acquired the lock, the lock is
\* eventually released, also when the text generator or the audio
\* synthesizer never responds and the wait ends with the deadline.
C26_LockEventuallyReleased ==
    \A k \in 1..(MaxPlayingIndex + LOOKAHEAD) :
        LockHeldFor(k) ~> ~LockHeldFor(k)

\* C26 witness: the wait of the lock-holding pipeline has just ended with
\* the deadline, and the lock is free with no pipeline left.
C26_Witness_DeadlineReleasedLock ==
    /\ last.op = "pipelineFailure"
    /\ last.timedOut
    /\ ~isGeneratingRef
    /\ pipelines = <<>>
    /\ appState = READY_TO_PLAY

\* C27: whenever a timeline exists, the indices of its segments are exactly
\* 1..segments.length.
C27_IndicesContiguous ==
    story # Null => SegmentIndices(story) = 1..Len(story.segments)

\* C28: the phase is ReadyToPlay if and only if a timeline exists, and a
\* timeline that exists holds at least one segment and comes with a route.
C28_PhaseMatchesTimeline ==
    /\ (appState = READY_TO_PLAY) <=> (story # Null)
    /\ story # Null => (Len(story.segments) >= 1 /\ route # Null)

\* C28 witness: after a reset during which a pipeline kept running, the
\* second journey has become ready: phase ReadyToPlay, a timeline with its
\* first segment and a route.
C28_Witness_SecondJourneyReady ==
    /\ last.op = "initialSuccess"
    /\ journeys = 2
    /\ appState = READY_TO_PLAY
    /\ story # Null
    /\ Len(story.segments) = 1
    /\ route # Null
    /\ Len(pipelines) = 2

\* C29: a background pipeline that completes successfully while no timeline
\* exists leaves the timeline absent and changes nothing but the lock flag,
\* which it leaves free: phase, route, playback position, errors, the
\* initial generation and the other pipelines stay as they are, and nothing
\* is launched.
C29_StaleSuccessWithoutTimeline ==
    [][(last'.op = "pipelineSuccess" /\ story = Null) =>
          /\ story' = Null
          /\ merged'.kind = "no timeline"
          /\ ~isGeneratingRef'
          /\ appState' = appState
          /\ route' = route
          /\ currentPlayingIndex' = currentPlayingIndex
          /\ generationError' = generationError
          /\ error' = error
          /\ initGen' = initGen
          /\ isLoading' = isLoading
          /\ trigger'.launched = 0
          /\ \E i \in 1..Len(pipelines) :
                pipelines' = RemoveAt(pipelines, i)]_vars

\* C29 witness: after a reset, while the next journey's initial generation
\* is in progress, the previous journey's pipeline has completed
\* successfully and there is still no timeline.
C29_Witness_StaleSuccessDuringInitial ==
    /\ last.op = "pipelineSuccess"
    /\ merged.kind = "no timeline"
    /\ story = Null
    /\ appState = GENERATING_INITIAL_SEGMENT
    /\ initGen # Null
    /\ journeys = 2
    /\ merged.journey = 1

====
